---- MODULE Spec2Model ----
(***************************************************************************)
(* Model of the stream supervisor of src/main.py: the StreamManager        *)
(* (queue store, stream loop, ffmpeg process control, status) and the      *)
(* FastAPI endpoints that drive it.                                        *)
(*                                                                         *)
(* Threads.  The endpoints are `async def` functions without an await in   *)
(* the modelled paths, so uvicorn runs them one at a time on its event      *)
(* loop thread: the model has ONE handler thread (Handler) that executes   *)
(* one request at a time, statement by statement.  Every accepted           *)
(* /stream/start spawns a daemon thread running _stream_loop; these are     *)
(* the loop threads 1..MaxLoops.  Handler and loop threads interleave at    *)
(* statement granularity; a `with self.lock:` block is an acquire step      *)
(* followed by one step for its body and the release.                       *)
(***************************************************************************)
EXTENDS Integers, Sequences, FiniteSets, TLC

\* ---------------------------------------------------------------- bounds
MaxLoops == 2      \* loop threads that can be alive at once
MaxProcs == 2      \* ffmpeg processes that can be tracked at once
MaxAdds == 1       \* /queue/add requests in one run

Videos == {"a", "b", "c"}
NoVideo == "none"
NoTime == "none"
Handler == 0
NoProc == 0
Loops == 1..MaxLoops
ProcIds == 1..MaxProcs

VARIABLES
  queue,             \* self.queue
  disk,              \* QUEUE_FILE: [exists, text]
  files,             \* ids whose file exists under VIDEOS_DIR
  is_active,         \* self.is_active
  current_video_id,  \* self.current_video_id
  start_time,        \* self.start_time (NoTime or "set")
  should_stop,       \* self.should_stop
  process,           \* self.process: NoProc or a process id
  lock,              \* self.lock: set of holders (empty = free)
  procs,             \* the ffmpeg processes: [st, video] per id
  pc,                \* per loop thread: statement it is at, "dead" if none
  vid,               \* per loop thread: local video_id
  wp,                \* per loop thread: the Popen object its wait() blocks on
  hpc,               \* handler thread: statement it is at, "idle" between requests
  hreq,              \* handler thread: request being served
  harg,              \* handler thread: video_id argument
  hw,                \* handler thread: the Popen object its wait(timeout) blocks on
  result,            \* outcome of the request about to be returned
  resp,              \* body of the /status response about to be returned
  prevStopOk,        \* history: the last completed request was a stop that returned ok
  ioFailed,          \* history: the last _save_queue failed
  faults,            \* environment: writes of QUEUE_FILE can fail in this run
  nadd,              \* history: number of /queue/add requests so far (saturating)
  restarted,         \* history: the server was restarted and has served no request since
  track,             \* whether this run records the history variable note
  note,              \* history: the last skip or missing file, and the queue head then
  pend,              \* history: the videos popped and not yet launched or dropped, in pop order
  stopped,           \* history: the loop threads that have not been at the while test since stop_stream set should_stop
  ht                 \* history: the process the handler's request signalled, while it is alive

vars == <<queue, disk, files, is_active, current_video_id, start_time, should_stop,
          process, lock, procs, pc, vid, wp, hpc, hreq, harg, hw, result, resp,
          prevStopOk, ioFailed, faults, nadd, restarted, track, note,
          pend, stopped, ht>>

sessionVars == <<is_active, current_video_id, start_time>>
loopVars == <<pc, vid, wp>>
handlerVars == <<hpc, hreq, harg, hw, result, resp, prevStopOk>>

\* ---------------------------------------------------------------- helpers
Range(s) == {s[i] : i \in 1..Len(s)}
NoDup(s) == \A i, j \in 1..Len(s) : i # j => s[i] # s[j]

RECURSIVE SeqsOver(_, _)
SeqsOver(S, n) ==
  IF n = 0 THEN {<<>>}
  ELSE LET shorter == SeqsOver(S, n - 1)
       IN shorter \cup {Append(s, x) : s \in {r \in shorter : Len(r) = n - 1}, x \in S}

DupFreeQueues(S) == {s \in SeqsOver(S, Cardinality(S)) : NoDup(s)}

\* ------------------------------------------------- queue file (JSON text)
NoFile == [exists |-> FALSE, text |-> <<>>]

RECURSIVE JoinIds(_)
JoinIds(q) ==
  IF Len(q) = 0 THEN <<>>
  ELSE IF Len(q) = 1 THEN <<q[1]>>
  ELSE <<q[1], ",">> \o JoinIds(Tail(q))

\* json.dump(self.queue, f): a JSON array of strings, as a token sequence
JsonDump(q) == <<"[">> \o JoinIds(q) \o <<"]">>

RECURSIVE ParseIds(_)
ParseIds(toks) ==
  IF Len(toks) = 0 THEN [ok |-> FALSE, val |-> <<>>]
  ELSE IF toks[1] \in {"[", "]", ","} THEN [ok |-> FALSE, val |-> <<>>]
  ELSE IF Len(toks) = 1 THEN [ok |-> TRUE, val |-> <<toks[1]>>]
  ELSE IF toks[2] # "," THEN [ok |-> FALSE, val |-> <<>>]
  ELSE LET rest == ParseIds(SubSeq(toks, 3, Len(toks)))
       IN [ok |-> rest.ok, val |-> IF rest.ok THEN <<toks[1]>> \o rest.val ELSE <<>>]

\* json.load(f): the array back, or a parse error
JsonLoad(text) ==
  IF Len(text) < 2 \/ text[1] # "[" \/ text[Len(text)] # "]"
  THEN [ok |-> FALSE, val |-> <<>>]
  ELSE IF Len(text) = 2 THEN [ok |-> TRUE, val |-> <<>>]
  ELSE ParseIds(SubSeq(text, 2, Len(text) - 1))

\* _load_queue, applied to the freshly constructed self.queue = []
load_queue(d) ==
  IF d.exists
  THEN IF JsonLoad(d.text).ok THEN JsonLoad(d.text).val ELSE <<>>
  ELSE <<>>

SaveOutcomes == IF faults THEN {"ok", "open_fails", "dump_fails"} ELSE {"ok"}

\* a _save_queue that reports success without writing the file
save_queue_stale(q, d, outcome) ==
  IF outcome = "dump_fails" THEN [exists |-> TRUE, text |-> <<>>] ELSE d

\* _save_queue: open(QUEUE_FILE, 'w') truncates, json.dump writes; an I/O error
\* is printed and swallowed
save_queue(q, d, outcome) ==
  IF outcome = "ok" THEN [exists |-> TRUE, text |-> JsonDump(q)]
  ELSE IF outcome = "open_fails" THEN d
  ELSE [exists |-> TRUE, text |-> <<>>]

\* ------------------------------------------------------------ queue store
\* an add_to_queue without the membership test
add_to_queue_always(q, v) == Append(q, v)

\* body of add_to_queue
add_to_queue(q, v) == IF v \in Range(q) THEN q ELSE Append(q, v)

\* list.remove(x): removes the first occurrence
ListRemove(q, v) ==
  LET i == CHOOSE k \in 1..Len(q) : q[k] = v /\ \A j \in 1..(k - 1) : q[j] # v
  IN SubSeq(q, 1, i - 1) \o SubSeq(q, i + 1, Len(q))

\* body of remove_from_queue
remove_from_queue(q, v) == IF v \in Range(q) THEN ListRemove(q, v) ELSE q

\* a get_next_video that pops the tail (list.pop() for list.pop(0))
get_next_video_last(q) ==
  IF q # <<>> THEN [video |-> q[Len(q)], queue |-> SubSeq(q, 1, Len(q) - 1)]
  ELSE [video |-> NoVideo, queue |-> q]

\* body of get_next_video: [video, queue]
get_next_video(q) ==
  IF q # <<>> THEN [video |-> Head(q), queue |-> Tail(q)]
  ELSE [video |-> NoVideo, queue |-> q]

\* ---------------------------------------------------------------- processes
\* what line 205 can read from self.process.returncode
ExitCodes == {"zero", "nonzero"}
FreeProc == [st |-> "Free", video |-> NoVideo]
Alive(ps) == {p \in ProcIds : ps[p].st \in {"Running", "Terminating"}}
FreeSlots(ps) == {p \in ProcIds : ps[p].st = "Free"}
LowestFree(ps) == CHOOSE p \in FreeSlots(ps) : \A o \in FreeSlots(ps) : p <= o

\* an exited process that nothing references any more is dropped from the table
Collect(ps, refs) ==
  [p \in ProcIds |-> IF ps[p].st = "Exited" /\ p \notin refs THEN FreeProc ELSE ps[p]]

Refs(proc, waits, hwait) == {proc, hwait} \cup {waits[t] : t \in Loops}

\* Popen.terminate(): SIGTERM; nothing happens to a process that has exited
Terminate(ps, p) ==
  IF ps[p].st = "Running" THEN [ps EXCEPT ![p].st = "Terminating"] ELSE ps

\* Popen.kill(): SIGKILL
Kill(ps, p) ==
  IF ps[p].st \in {"Running", "Terminating"} THEN [ps EXCEPT ![p].st = "Exited"] ELSE ps

DeadLoops == {t \in Loops : pc[t] = "dead"}
LiveLoops == Loops \ DeadLoops
LowestDead == CHOOSE t \in DeadLoops : \A o \in DeadLoops : t <= o

NoNote == [kind |-> "none", id |-> NoVideo, expect |-> NoVideo]
HeadOrNone(q) == IF q = <<>> THEN NoVideo ELSE Head(q)
Noted(kind, id, q) ==
  IF track THEN [kind |-> kind, id |-> id, expect |-> HeadOrNone(q)] ELSE NoNote

NoResp == [isActive |-> FALSE, currentVideoId |-> NoVideo, started |-> FALSE,
           status |-> "none", queue |-> <<>>]

\* ---------------------------------------------------------------- initial state
\* StreamManager.__init__ on a queue file this program wrote earlier (or none)
\* with the video files F under VIDEOS_DIR
InitManager(F) ==
  /\ files = F
  /\ disk \in {NoFile} \cup {[exists |-> TRUE, text |-> JsonDump(q)] : q \in DupFreeQueues(F)}
  /\ queue = load_queue(disk)
  /\ is_active = FALSE
  /\ current_video_id = NoVideo
  /\ start_time = NoTime
  /\ should_stop = FALSE
  /\ process = NoProc
  /\ lock = {}
  /\ procs = [p \in ProcIds |-> FreeProc]
  /\ pc = [t \in Loops |-> "dead"]
  /\ vid = [t \in Loops |-> NoVideo]
  /\ wp = [t \in Loops |-> NoProc]
  /\ hpc = "idle"
  /\ hreq = "none"
  /\ harg = NoVideo
  /\ hw = NoProc
  /\ result = "none"
  /\ resp = NoResp
  /\ prevStopOk = FALSE
  /\ ioFailed = FALSE
  /\ nadd = 0
  /\ restarted = FALSE
  /\ note = NoNote
  /\ pend = <<>>
  /\ stopped = {}
  /\ ht = NoProc

\* normal operation: the disk is reliable
Init == InitManager({"a", "b"}) /\ faults = FALSE /\ track = FALSE

\* the queue file can fail to be written
InitFaulty == InitManager(Videos) /\ faults = TRUE /\ track = FALSE

\* a run that records note
InitSolo == InitManager(Videos) /\ faults = FALSE /\ track = TRUE

\* ---------------------------------------------------------------- handler thread
\* A request runs from "idle" to "ret" (the response is ready) and H_Return hands
\* the response to the client.
Begin(kind) == hpc = "idle" /\ hreq' = kind /\ restarted' = FALSE
Ret(res) == hpc' = "ret" /\ result' = res

\* --- POST /stream/start (endpoint lines 423-439, StreamManager.start_stream 120-128)
\* line 426: if stream_manager.is_active: 400 "Stream is already active"
H_Start426 ==
  /\ Begin("start")
  /\ IF is_active
     THEN Ret("AlreadyActive")
     ELSE DeadLoops # {} /\ hpc' = "start_429" /\ result' = result
  /\ UNCHANGED <<queue, disk, files, sessionVars, should_stop, process, lock, procs,
                 loopVars, harg, hw, resp, prevStopOk, ioFailed, faults, nadd, track, pend, stopped, ht, note>>

\* line 429: if not stream_manager.queue: 400 "Queue is empty"; line 432 load_settings
H_Start429 ==
  /\ hpc = "start_429"
  /\ IF queue = <<>> THEN Ret("EmptyQueue") ELSE hpc' = "start_122" /\ result' = result
  /\ UNCHANGED <<queue, disk, files, sessionVars, should_stop, process, lock, procs,
                 loopVars, hreq, harg, hw, resp, prevStopOk, ioFailed, faults, nadd, restarted, track, pend, stopped, ht, note>>

\* a start_stream that clears the stop flag before it tests the active flag
H_Start122_ResetFirst ==
  /\ hpc = "start_122"
  /\ should_stop' = FALSE
  /\ IF is_active THEN Ret("AlreadyActive") ELSE hpc' = "start_125" /\ result' = result
  /\ UNCHANGED <<queue, disk, files, sessionVars, process, lock, procs,
                 loopVars, hreq, harg, hw, resp, prevStopOk, ioFailed, faults, nadd,
                 restarted, track, pend, stopped, ht, note>>

\* lines 122-123: if self.is_active: raise Exception("Stream is already active"),
\* which the endpoint turns into a 500 (lines 438-439)
H_Start122 ==
  /\ hpc = "start_122"
  /\ IF is_active THEN Ret("AlreadyActive") ELSE hpc' = "start_125" /\ result' = result
  /\ UNCHANGED <<queue, disk, files, sessionVars, should_stop, process, lock, procs,
                 loopVars, hreq, harg, hw, resp, prevStopOk, ioFailed, faults, nadd, restarted, track, pend, stopped, ht, note>>

\* lines 125-128: self.should_stop = False; the loop thread is created and started
H_Start125 ==
  /\ hpc = "start_125"
  /\ should_stop' = FALSE
  /\ pc' = [pc EXCEPT ![LowestDead] = "l132"]
  /\ Ret("ok")
  /\ UNCHANGED <<queue, disk, files, sessionVars, process, lock, procs, vid, wp,
                 hreq, harg, hw, resp, prevStopOk, ioFailed, faults, nadd, restarted, track, pend, stopped, ht, note>>

\* --- POST /stream/stop (endpoint lines 441-452, StreamManager.stop_stream 217-235)
\* line 444: if not stream_manager.is_active: 400 "No active stream to stop"
H_Stop444 ==
  /\ Begin("stop")
  /\ IF ~is_active THEN Ret("NotActive") ELSE hpc' = "stop_219" /\ result' = result
  /\ UNCHANGED <<queue, disk, files, sessionVars, should_stop, process, lock, procs,
                 loopVars, harg, hw, resp, prevStopOk, ioFailed, faults, nadd, track, pend, stopped, ht, note>>

\* line 219: self.should_stop = True; line 221: if self.process:
H_Stop219 ==
  /\ hpc = "stop_219"
  /\ should_stop' = TRUE
  /\ hpc' = IF process # NoProc THEN "stop_223" ELSE "stop_232"
  /\ stopped' = stopped \cup {t \in LiveLoops : pc[t] \notin {"l152", "l153"}}
  /\ UNCHANGED <<queue, disk, files, sessionVars, process, lock, procs, loopVars,
                 hreq, harg, hw, result, resp, prevStopOk, ioFailed, faults, nadd, restarted, track, pend, ht, note>>

\* line 223: self.process.terminate(); self.process is read again, and an
\* AttributeError on None is caught at line 227
H_Stop223 ==
  /\ hpc = "stop_223"
  /\ IF process = NoProc
     THEN hpc' = "stop_230" /\ procs' = procs
     ELSE hpc' = "stop_224" /\ procs' = Terminate(procs, process)
  /\ ht' = IF process # NoProc /\ process \in Alive(procs) THEN process ELSE ht
  /\ UNCHANGED <<queue, disk, files, sessionVars, should_stop, process, lock, loopVars,
                 hreq, harg, hw, result, resp, prevStopOk, ioFailed, faults, nadd, restarted, track, pend, stopped, note>>

\* line 224: self.process.wait(timeout=5): the object is looked up, then waited on
H_Stop224 ==
  /\ hpc = "stop_224"
  /\ IF process = NoProc
     THEN hpc' = "stop_230" /\ hw' = hw
     ELSE hpc' = "stop_224w" /\ hw' = process
  /\ UNCHANGED <<queue, disk, files, sessionVars, should_stop, process, lock, procs,
                 loopVars, hreq, harg, result, resp, prevStopOk, ioFailed, faults, nadd, restarted, track, pend, stopped, ht, note>>

\* wait() returns (the process has exited) or raises TimeoutExpired (it has not)
H_Stop224w ==
  /\ hpc = "stop_224w"
  /\ hpc' = IF procs[hw].st = "Exited" THEN "stop_230" ELSE "stop_226"
  /\ hw' = NoProc
  /\ procs' = Collect(procs, Refs(process, wp, NoProc))
  /\ UNCHANGED <<queue, disk, files, sessionVars, should_stop, process, lock, loopVars,
                 hreq, harg, result, resp, prevStopOk, ioFailed, faults, nadd, restarted, track, pend, stopped, ht, note>>

\* line 226: self.process.kill() inside the TimeoutExpired handler; an
\* AttributeError there is not caught by line 227: after the finally of line 230
\* it leaves stop_stream, skipping lines 232-235, and the endpoint answers 500
H_Stop226 ==
  /\ hpc = "stop_226"
  /\ IF process = NoProc
     THEN Ret("Error") /\ procs' = procs
     ELSE hpc' = "stop_230" /\ result' = result
          /\ procs' = Collect(Kill(procs, process), Refs(process, wp, hw))
  /\ ht' = IF ht = process THEN NoProc ELSE ht
  /\ UNCHANGED <<queue, disk, files, sessionVars, should_stop, process, lock, loopVars,
                 hreq, harg, hw, resp, prevStopOk, ioFailed, faults, nadd, restarted, track, pend, stopped, note>>

\* line 230: finally: self.process = None
H_Stop230 ==
  /\ hpc = "stop_230"
  /\ process' = NoProc
  /\ procs' = Collect(procs, Refs(NoProc, wp, hw))
  /\ hpc' = "stop_232"
  /\ UNCHANGED <<queue, disk, files, sessionVars, should_stop, lock, loopVars,
                 hreq, harg, hw, result, resp, prevStopOk, ioFailed, faults, nadd, restarted, track, pend, stopped, ht, note>>

\* line 232: with self.lock:
H_Stop232 ==
  /\ hpc = "stop_232"
  /\ lock = {}
  /\ lock' = {Handler}
  /\ hpc' = "stop_233"
  /\ UNCHANGED <<queue, disk, files, sessionVars, should_stop, process, procs, loopVars,
                 hreq, harg, hw, result, resp, prevStopOk, ioFailed, faults, nadd, restarted, track, pend, stopped, ht, note>>

\* a stop_stream that leaves start_time as it is
H_Stop233_KeepsTime ==
  /\ hpc = "stop_233"
  /\ is_active' = FALSE
  /\ current_video_id' = NoVideo
  /\ lock' = {}
  /\ Ret("ok")
  /\ UNCHANGED <<queue, disk, files, start_time, should_stop, process, procs, loopVars,
                 hreq, harg, hw, resp, prevStopOk, ioFailed, faults, nadd, restarted,
                 track, pend, stopped, ht, note>>

\* lines 233-235, and the release of the lock
H_Stop233 ==
  /\ hpc = "stop_233"
  /\ is_active' = FALSE
  /\ current_video_id' = NoVideo
  /\ start_time' = NoTime
  /\ lock' = {}
  /\ Ret("ok")
  /\ UNCHANGED <<queue, disk, files, should_stop, process, procs, loopVars,
                 hreq, harg, hw, resp, prevStopOk, ioFailed, faults, nadd, restarted, track, pend, stopped, ht, note>>

\* --- POST /stream/skip (endpoint lines 454-465, StreamManager.skip_current 237-246)
\* line 457: if not stream_manager.is_active: 400 "No active stream"
H_Skip457 ==
  /\ Begin("skip")
  /\ IF ~is_active THEN Ret("NotActive") ELSE hpc' = "skip_239" /\ result' = result
  /\ UNCHANGED <<queue, disk, files, sessionVars, should_stop, process, lock, procs,
                 loopVars, harg, hw, resp, prevStopOk, ioFailed, faults, nadd, track, pend, stopped, ht, note>>

\* a skip_current that asks the loop to stop when there is no process
H_Skip239_SetsStop ==
  /\ hpc = "skip_239"
  /\ IF process # NoProc
     THEN hpc' = "skip_241" /\ result' = result /\ should_stop' = should_stop
     ELSE Ret("ok") /\ should_stop' = TRUE
  /\ UNCHANGED <<queue, disk, files, sessionVars, process, lock, procs,
                 loopVars, hreq, harg, hw, resp, prevStopOk, ioFailed, faults, nadd,
                 restarted, track, pend, stopped, ht, note>>

\* line 239: if self.process:
H_Skip239 ==
  /\ hpc = "skip_239"
  /\ IF process # NoProc THEN hpc' = "skip_241" /\ result' = result ELSE Ret("ok")
  /\ UNCHANGED <<queue, disk, files, sessionVars, should_stop, process, lock, procs,
                 loopVars, hreq, harg, hw, resp, prevStopOk, ioFailed, faults, nadd, restarted, track, pend, stopped, ht, note>>

\* line 241: self.process.terminate(); an AttributeError on None is caught at 245
H_Skip241 ==
  /\ hpc = "skip_241"
  /\ IF process = NoProc
     THEN Ret("ok") /\ procs' = procs /\ note' = note
     ELSE /\ hpc' = "skip_242" /\ result' = result
          /\ procs' = Terminate(procs, process)
          /\ note' = Noted("skip", procs[process].video, queue)
  /\ ht' = IF process # NoProc /\ process \in Alive(procs) THEN process ELSE ht
  /\ UNCHANGED <<queue, disk, files, sessionVars, should_stop, process, lock, loopVars,
                 hreq, harg, hw, resp, prevStopOk, ioFailed, faults, nadd, restarted, track, pend, stopped>>

\* line 242: self.process.wait(timeout=5)
H_Skip242 ==
  /\ hpc = "skip_242"
  /\ IF process = NoProc
     THEN Ret("ok") /\ hw' = hw
     ELSE hpc' = "skip_242w" /\ result' = result /\ hw' = process
  /\ UNCHANGED <<queue, disk, files, sessionVars, should_stop, process, lock, procs,
                 loopVars, hreq, harg, resp, prevStopOk, ioFailed, faults, nadd, restarted, track, pend, stopped, ht, note>>

\* wait() returns or raises TimeoutExpired
H_Skip242w ==
  /\ hpc = "skip_242w"
  /\ IF procs[hw].st = "Exited" THEN Ret("ok") ELSE hpc' = "skip_244" /\ result' = result
  /\ hw' = NoProc
  /\ procs' = Collect(procs, Refs(process, wp, NoProc))
  /\ UNCHANGED <<queue, disk, files, sessionVars, should_stop, process, lock, loopVars,
                 hreq, harg, resp, prevStopOk, ioFailed, faults, nadd, restarted, track, pend, stopped, ht, note>>

\* line 244: self.process.kill() inside the TimeoutExpired handler; an
\* AttributeError there leaves skip_current and the endpoint answers 500
H_Skip244 ==
  /\ hpc = "skip_244"
  /\ IF process = NoProc
     THEN Ret("Error") /\ procs' = procs
     ELSE Ret("ok") /\ procs' = Collect(Kill(procs, process), Refs(process, wp, hw))
  /\ ht' = IF ht = process THEN NoProc ELSE ht
  /\ UNCHANGED <<queue, disk, files, sessionVars, should_stop, process, lock, loopVars,
                 hreq, harg, hw, resp, prevStopOk, ioFailed, faults, nadd, restarted, track, pend, stopped, note>>

\* --- POST /queue/add (endpoint lines 467-476, StreamManager.add_to_queue 97-102)
\* line 472: if not video_path.exists(): 404 "Video not found"
H_Add472 ==
  /\ Begin("add")
  /\ nadd' = IF nadd < MaxAdds THEN nadd + 1 ELSE nadd
  /\ \E v \in Videos :
       /\ harg' = v
       /\ IF v \notin files THEN Ret("NotFound") ELSE hpc' = "add_99" /\ result' = result
  /\ UNCHANGED <<queue, disk, files, sessionVars, should_stop, process, lock, procs,
                 loopVars, hw, resp, prevStopOk, ioFailed, faults, track, pend, stopped, ht, note>>

\* line 99: with self.lock:
H_Add99 ==
  /\ hpc = "add_99"
  /\ lock = {}
  /\ lock' = {Handler}
  /\ hpc' = "add_100"
  /\ UNCHANGED <<queue, disk, files, sessionVars, should_stop, process, procs, loopVars,
                 hreq, harg, hw, result, resp, prevStopOk, ioFailed, faults, nadd, restarted, track, pend, stopped, ht, note>>

\* lines 100-102, and the release of the lock: _save_queue runs only on a change
H_Add100 ==
  /\ hpc = "add_100"
  /\ queue' = add_to_queue(queue, harg)
  /\ IF harg \in Range(queue)
     THEN disk' = disk /\ ioFailed' = ioFailed
     ELSE \E o \in SaveOutcomes :
            disk' = save_queue(queue', disk, o) /\ ioFailed' = (o # "ok")
  /\ lock' = {}
  /\ Ret("ok")
  /\ UNCHANGED <<files, sessionVars, should_stop, process, procs, loopVars,
                 hreq, harg, hw, resp, prevStopOk, faults, nadd, restarted, track, pend, stopped, ht, note>>

\* --- DELETE /queue/remove/{video_id} (endpoint 478-482, remove_from_queue 104-109)
\* line 106: with self.lock:
H_Rem106 ==
  /\ Begin("rem")
  /\ \E v \in Videos : harg' = v
  /\ lock = {}
  /\ lock' = {Handler}
  /\ hpc' = "rem_107"
  /\ UNCHANGED <<queue, disk, files, sessionVars, should_stop, process, procs, loopVars,
                 hw, result, resp, prevStopOk, ioFailed, faults, nadd, track, pend, stopped, ht, note>>

\* lines 107-109, and the release of the lock
H_Rem107 ==
  /\ hpc = "rem_107"
  /\ queue' = remove_from_queue(queue, harg)
  /\ IF harg \notin Range(queue)
     THEN disk' = disk /\ ioFailed' = ioFailed
     ELSE \E o \in SaveOutcomes :
            disk' = save_queue(queue', disk, o) /\ ioFailed' = (o # "ok")
  /\ lock' = {}
  /\ Ret("ok")
  /\ UNCHANGED <<files, sessionVars, should_stop, process, procs, loopVars,
                 hreq, harg, hw, resp, prevStopOk, faults, nadd, restarted, track, pend, stopped, ht, note>>

\* --- GET /status (endpoint 334-337, StreamManager.get_status 248-261)
\* line 250: with self.lock:
H_Status250 ==
  /\ Begin("status")
  /\ lock = {}
  /\ lock' = {Handler}
  /\ hpc' = "status_251"
  /\ UNCHANGED <<queue, disk, files, sessionVars, should_stop, process, procs, loopVars,
                 harg, hw, result, resp, prevStopOk, ioFailed, faults, nadd, track, pend, stopped, ht, note>>

\* the dictionary built at lines 251-261
get_status ==
  [isActive |-> is_active,
   currentVideoId |-> current_video_id,
   started |-> start_time # NoTime,
   status |-> IF is_active THEN "streaming" ELSE "idle",
   queue |-> queue]

\* lines 251-252: uptime from self.start_time, status from self.is_active
H_Status251 ==
  /\ hpc = "status_251"
  /\ resp' = [resp EXCEPT !.started = start_time # NoTime,
                          !.status = IF is_active THEN "streaming" ELSE "idle"]
  /\ hpc' = "status_255"
  /\ UNCHANGED <<queue, disk, files, sessionVars, should_stop, process, lock, procs, loopVars,
                 hreq, harg, hw, result, prevStopOk, ioFailed, faults, nadd, restarted,
                 track, pend, stopped, ht, note>>

\* lines 255-256: "isActive" and "currentVideoId"
H_Status255 ==
  /\ hpc = "status_255"
  /\ resp' = [resp EXCEPT !.isActive = is_active, !.currentVideoId = current_video_id]
  /\ hpc' = "status_259"
  /\ UNCHANGED <<queue, disk, files, sessionVars, should_stop, process, lock, procs, loopVars,
                 hreq, harg, hw, result, prevStopOk, ioFailed, faults, nadd, restarted,
                 track, pend, stopped, ht, note>>

\* line 259: "queue": self.queue.copy(); the dictionary is returned and the lock
\* released
H_Status259 ==
  /\ hpc = "status_259"
  /\ resp' = [resp EXCEPT !.queue = queue]
  /\ lock' = {}
  /\ Ret("ok")
  /\ UNCHANGED <<queue, disk, files, sessionVars, should_stop, process, procs, loopVars,
                 hreq, harg, hw, prevStopOk, ioFailed, faults, nadd, restarted,
                 track, pend, stopped, ht, note>>

\* the response leaves the server; the handler thread takes the next request
H_Return ==
  /\ hpc = "ret"
  /\ hpc' = "idle"
  /\ prevStopOk' = (hreq = "stop" /\ result = "ok")
  /\ hreq' = "none"
  /\ harg' = NoVideo
  /\ result' = "none"
  /\ resp' = NoResp
  /\ ht' = NoProc
  /\ UNCHANGED <<queue, disk, files, sessionVars, should_stop, process, lock, procs,
                 loopVars, hw, ioFailed, faults, nadd, restarted, track, pend, stopped, note>>

\* ---------------------------------------------------------------- loop threads
\* StreamManager._stream_loop (130-155) with _stream_video (157-215) inlined
\* line 132: while not self.should_stop:
L_132(t) ==
  /\ pc[t] = "l132"
  /\ pc' = [pc EXCEPT ![t] = IF should_stop THEN "l152" ELSE "l113"]
  /\ stopped' = stopped \ {t}
  /\ UNCHANGED <<queue, disk, files, sessionVars, should_stop, process, lock, procs,
                 vid, wp, handlerVars, ioFailed, faults, nadd, restarted, track, pend, ht, note>>

\* line 133 -> get_next_video, line 113: with self.lock:
L_113(t) ==
  /\ pc[t] = "l113"
  /\ lock = {}
  /\ lock' = {t}
  /\ pc' = [pc EXCEPT ![t] = "l114"]
  /\ UNCHANGED <<queue, disk, files, sessionVars, should_stop, process, procs,
                 vid, wp, handlerVars, ioFailed, faults, nadd, restarted, track, pend, stopped, ht, note>>

\* lines 114-118 and the release of the lock; lines 135-137: an empty queue
\* ends the loop
L_114(t) ==
  /\ pc[t] = "l114"
  /\ queue' = get_next_video(queue).queue
  /\ vid' = [vid EXCEPT ![t] = get_next_video(queue).video]
  /\ IF queue = <<>>
     THEN disk' = disk /\ ioFailed' = ioFailed
     ELSE \E o \in SaveOutcomes :
            disk' = save_queue(queue', disk, o) /\ ioFailed' = (o # "ok")
  /\ lock' = {}
  /\ pc' = [pc EXCEPT ![t] = IF get_next_video(queue).video = NoVideo THEN "l152" ELSE "l141"]
  /\ pend' = IF queue = <<>> THEN pend ELSE Append(pend, Head(queue))
  /\ UNCHANGED <<files, sessionVars, should_stop, process, procs, wp, handlerVars, faults, nadd, restarted, track, stopped, ht, note>>

\* a loop that ends on a missing file (break for continue)
after_exists_check_break(exists) == IF exists THEN "l188" ELSE "l152"

\* the statement the loop goes to after the existence test of lines 141-143
after_exists_check(exists) == IF exists THEN "l188" ELSE "l132"

\* lines 139-143: if not video_path.exists(): print, continue
L_141(t) ==
  /\ pc[t] = "l141"
  /\ pc' = [pc EXCEPT ![t] = after_exists_check(vid[t] \in files)]
  /\ vid' = [vid EXCEPT ![t] = IF vid[t] \in files THEN vid[t] ELSE NoVideo]
  /\ note' = IF vid[t] \in files THEN note ELSE Noted("missing", vid[t], queue)
  /\ pend' = IF vid[t] \in files THEN pend ELSE remove_from_queue(pend, vid[t])
  /\ UNCHANGED <<queue, disk, files, sessionVars, should_stop, process, lock, procs,
                 wp, handlerVars, ioFailed, faults, nadd, restarted, track, stopped, ht>>

\* a _stream_video that marks the session without taking the lock
L_188_NoLock(t) ==
  /\ pc[t] = "l188"
  /\ pc' = [pc EXCEPT ![t] = "l189"]
  /\ UNCHANGED <<queue, disk, files, sessionVars, should_stop, process, lock, procs,
                 vid, wp, handlerVars, ioFailed, faults, nadd, restarted, track, pend,
                 stopped, ht, note>>

\* _stream_video line 188: with self.lock:
L_188(t) ==
  /\ pc[t] = "l188"
  /\ lock = {}
  /\ lock' = {t}
  /\ pc' = [pc EXCEPT ![t] = "l189"]
  /\ UNCHANGED <<queue, disk, files, sessionVars, should_stop, process, procs,
                 vid, wp, handlerVars, ioFailed, faults, nadd, restarted, track, pend, stopped, ht, note>>

\* a _stream_video that keeps the lock while the video plays
L_189_KeepsLock(t) ==
  /\ pc[t] = "l189"
  /\ current_video_id' = vid[t]
  /\ is_active' = TRUE
  /\ start_time' = IF start_time = NoTime THEN "set" ELSE start_time
  /\ pc' = [pc EXCEPT ![t] = "l195"]
  /\ UNCHANGED <<queue, disk, files, should_stop, process, lock, procs,
                 vid, wp, handlerVars, ioFailed, faults, nadd, restarted, track, pend,
                 stopped, ht, note>>

\* lines 189-192 and the release of the lock
L_189(t) ==
  /\ pc[t] = "l189"
  /\ current_video_id' = vid[t]
  /\ is_active' = TRUE
  /\ start_time' = IF start_time = NoTime THEN "set" ELSE start_time
  /\ lock' = {}
  /\ pc' = [pc EXCEPT ![t] = "l195"]
  /\ UNCHANGED <<queue, disk, files, should_stop, process, procs,
                 vid, wp, handlerVars, ioFailed, faults, nadd, restarted, track, pend, stopped, ht, note>>

\* lines 195-200: self.process = subprocess.Popen(cmd, ...): the process runs
L_195(t) ==
  /\ pc[t] = "l195"
  /\ FreeSlots(procs) # {}
  /\ LET p == LowestFree(procs) IN
       /\ process' = p
       /\ procs' = Collect([procs EXCEPT ![p] = [st |-> "Running", video |-> vid[t]]],
                           Refs(p, wp, hw))
  /\ pc' = [pc EXCEPT ![t] = "l203"]
  /\ note' = NoNote
  /\ pend' = remove_from_queue(pend, vid[t])
  /\ UNCHANGED <<queue, disk, files, sessionVars, should_stop, lock,
                 vid, wp, handlerVars, ioFailed, faults, nadd, restarted, track, stopped, ht>>

\* a Popen error that is not caught and ends the thread
L_195fail_Escapes(t) ==
  /\ pc[t] = "l195"
  /\ FreeSlots(procs) # {}
  /\ pc' = [pc EXCEPT ![t] = "dead"]
  /\ note' = Noted("spawn", vid[t], queue)
  /\ pend' = remove_from_queue(pend, vid[t])
  /\ UNCHANGED <<queue, disk, files, sessionVars, should_stop, process, lock, procs,
                 vid, wp, handlerVars, ioFailed, faults, nadd, restarted, track, stopped, ht>>

\* lines 195-200 when Popen raises (no ffmpeg binary): caught at line 209
L_195fail(t) ==
  /\ pc[t] = "l195"
  /\ FreeSlots(procs) # {}
  /\ pc' = [pc EXCEPT ![t] = "l213"]
  /\ note' = Noted("spawn", vid[t], queue)
  /\ pend' = remove_from_queue(pend, vid[t])
  /\ UNCHANGED <<queue, disk, files, sessionVars, should_stop, process, lock, procs,
                 vid, wp, handlerVars, ioFailed, faults, nadd, restarted, track, stopped, ht>>

\* line 203: self.process.wait(): the object is looked up, then waited on; an
\* AttributeError on None is caught at line 209
L_203(t) ==
  /\ pc[t] = "l203"
  /\ IF process = NoProc
     THEN pc' = [pc EXCEPT ![t] = "l213"] /\ wp' = wp
     ELSE pc' = [pc EXCEPT ![t] = "l203w"] /\ wp' = [wp EXCEPT ![t] = process]
  /\ UNCHANGED <<queue, disk, files, sessionVars, should_stop, process, lock, procs,
                 vid, handlerVars, ioFailed, faults, nadd, restarted, track, pend, stopped, ht, note>>

\* wait() returns once that process has exited; lines 205-207 read its return
\* code, which is zero or not, and print the error of a process that failed
L_203w(t) ==
  /\ pc[t] = "l203w"
  /\ procs[wp[t]].st = "Exited"
  /\ \E rc \in ExitCodes :
       note' = IF rc = "nonzero" /\ note.kind # "skip"
               THEN Noted("failed", procs[wp[t]].video, queue) ELSE note
  /\ wp' = [wp EXCEPT ![t] = NoProc]
  /\ procs' = Collect(procs, Refs(process, wp', hw))
  /\ pc' = [pc EXCEPT ![t] = "l213"]
  /\ UNCHANGED <<queue, disk, files, sessionVars, should_stop, process, lock,
                 vid, handlerVars, ioFailed, faults, nadd, restarted, track, pend, stopped, ht>>

\* line 213: finally: self.process = None
L_213(t) ==
  /\ pc[t] = "l213"
  /\ process' = NoProc
  /\ procs' = Collect(procs, Refs(NoProc, wp, hw))
  /\ pc' = [pc EXCEPT ![t] = "l214"]
  /\ UNCHANGED <<queue, disk, files, sessionVars, should_stop, lock,
                 vid, wp, handlerVars, ioFailed, faults, nadd, restarted, track, pend, stopped, ht, note>>

\* line 214: with self.lock:
L_214(t) ==
  /\ pc[t] = "l214"
  /\ lock = {}
  /\ lock' = {t}
  /\ pc' = [pc EXCEPT ![t] = "l215"]
  /\ UNCHANGED <<queue, disk, files, sessionVars, should_stop, process, procs,
                 vid, wp, handlerVars, ioFailed, faults, nadd, restarted, track, pend, stopped, ht, note>>

\* line 215 and the release of the lock; _stream_video returns to the loop
L_215(t) ==
  /\ pc[t] = "l215"
  /\ current_video_id' = NoVideo
  /\ lock' = {}
  /\ pc' = [pc EXCEPT ![t] = "l132"]
  /\ vid' = [vid EXCEPT ![t] = NoVideo]
  /\ UNCHANGED <<queue, disk, files, is_active, start_time, should_stop, process, procs,
                 wp, handlerVars, ioFailed, faults, nadd, restarted, track, pend, stopped, ht, note>>

\* line 152: with self.lock:
L_152(t) ==
  /\ pc[t] = "l152"
  /\ lock = {}
  /\ lock' = {t}
  /\ pc' = [pc EXCEPT ![t] = "l153"]
  /\ UNCHANGED <<queue, disk, files, sessionVars, should_stop, process, procs,
                 vid, wp, handlerVars, ioFailed, faults, nadd, restarted, track, pend, stopped, ht, note>>

\* a loop that ends without the clean-up of lines 153-155
L_153_NoReset(t) ==
  /\ pc[t] = "l153"
  /\ lock' = {}
  /\ pc' = [pc EXCEPT ![t] = "dead"]
  /\ note' = NoNote
  /\ stopped' = stopped \ {t}
  /\ UNCHANGED <<queue, disk, files, sessionVars, should_stop, process, procs,
                 vid, wp, handlerVars, ioFailed, faults, nadd, restarted, track, pend, ht>>

\* lines 153-155 and the release of the lock; the thread ends
L_153(t) ==
  /\ pc[t] = "l153"
  /\ is_active' = FALSE
  /\ current_video_id' = NoVideo
  /\ start_time' = NoTime
  /\ lock' = {}
  /\ pc' = [pc EXCEPT ![t] = "dead"]
  /\ note' = NoNote
  /\ stopped' = stopped \ {t}
  /\ UNCHANGED <<queue, disk, files, should_stop, process, procs,
                 vid, wp, handlerVars, ioFailed, faults, nadd, restarted, track, pend, ht>>

\* ---------------------------------------------------------------- environment
\* an ffmpeg process exits (end of the video, an error, or the SIGTERM it got)
ProcExit(p) ==
  /\ procs[p].st \in {"Running", "Terminating"}
  /\ procs' = Collect([procs EXCEPT ![p].st = "Exited"], Refs(process, wp, hw))
  /\ ht' = IF ht = p THEN NoProc ELSE ht
  /\ UNCHANGED <<queue, disk, files, sessionVars, should_stop, process, lock,
                 loopVars, handlerVars, ioFailed, faults, nadd, restarted, track, pend, stopped, note>>

\* a video file disappears from VIDEOS_DIR
RemoveFile(v) ==
  /\ v \in files
  /\ files' = files \ {v}
  /\ UNCHANGED <<queue, disk, sessionVars, should_stop, process, lock, procs,
                 loopVars, handlerVars, ioFailed, faults, nadd, restarted, track, pend, stopped, ht, note>>

\* the service is restarted (its process group is stopped, so the daemon threads
\* and the ffmpeg children are gone): StreamManager.__init__ (66-77) runs again
\* on the queue file
Restart ==
  /\ queue' = load_queue(disk)
  /\ is_active' = FALSE
  /\ current_video_id' = NoVideo
  /\ start_time' = NoTime
  /\ should_stop' = FALSE
  /\ process' = NoProc
  /\ lock' = {}
  /\ procs' = [p \in ProcIds |-> FreeProc]
  /\ pc' = [t \in Loops |-> "dead"]
  /\ vid' = [t \in Loops |-> NoVideo]
  /\ wp' = [t \in Loops |-> NoProc]
  /\ hpc' = "idle"
  /\ hreq' = "none"
  /\ harg' = NoVideo
  /\ hw' = NoProc
  /\ result' = "none"
  /\ resp' = NoResp
  /\ prevStopOk' = FALSE
  /\ ioFailed' = FALSE
  /\ restarted' = TRUE
  /\ note' = NoNote
  /\ pend' = <<>>
  /\ stopped' = {}
  /\ ht' = NoProc
  /\ UNCHANGED <<disk, files, faults, nadd, track>>

\* ---------------------------------------------------------------- specification
StartSteps == H_Start429 \/ H_Start122 \/ H_Start125

StopSteps ==
  \/ H_Stop444 \/ H_Stop219 \/ H_Stop223 \/ H_Stop224 \/ H_Stop224w \/ H_Stop226
  \/ H_Stop230 \/ H_Stop232 \/ H_Stop233

SkipSteps ==
  \/ H_Skip457 \/ H_Skip239 \/ H_Skip241 \/ H_Skip242 \/ H_Skip242w \/ H_Skip244

QueueSteps == H_Add99 \/ H_Add100 \/ H_Rem106 \/ H_Rem107

StatusSteps == H_Status250 \/ H_Status251 \/ H_Status255 \/ H_Status259

LoopStep(t) ==
  \/ L_132(t) \/ L_113(t) \/ L_114(t) \/ L_141(t) \/ L_188(t) \/ L_189(t)
  \/ L_195(t) \/ L_195fail(t) \/ L_203(t) \/ L_203w(t) \/ L_213(t) \/ L_214(t)
  \/ L_215(t) \/ L_152(t) \/ L_153(t)

\* The server in operation: every request, the loop threads, the processes.
Next ==
  \/ H_Start426 \/ StartSteps
  \/ StopSteps
  \/ SkipSteps
  \/ (nadd < MaxAdds /\ H_Add472)
  \/ QueueSteps
  \/ StatusSteps
  \/ H_Return
  \/ \E t \in Loops : LoopStep(t)
  \/ \E p \in ProcIds : ProcExit(p)

Spec == Init /\ [][Next]_vars

\* Session control alone: start, stop, skip and status requests against the
\* loop threads and the processes, on the queue the server started with.
NextSession ==
  \/ H_Start426 \/ StartSteps
  \/ StopSteps
  \/ SkipSteps
  \/ StatusSteps
  \/ H_Return
  \/ \E t \in Loops : LoopStep(t)
  \/ \E p \in ProcIds : ProcExit(p)

SpecSession == Init /\ [][NextSession]_vars

\* The queue store and its file: any number of enqueue and dequeue requests, the
\* pops of one session at a time, failing writes of the queue file, restarts.
NextQueue ==
  \/ (LiveLoops = {} /\ H_Start426) \/ StartSteps
  \/ H_Add472
  \/ QueueSteps
  \/ StatusSteps
  \/ H_Return
  \/ \E t \in Loops : LoopStep(t)
  \/ \E p \in ProcIds : ProcExit(p)
  \/ Restart

SpecQueue == InitFaulty /\ [][NextQueue]_vars

\* One session at a time, left to run: start and skip requests, files that
\* disappear, ffmpeg that fails to start; no stop, no change of the queue by
\* a client.
NextSolo ==
  \/ (LiveLoops = {} /\ H_Start426) \/ StartSteps
  \/ SkipSteps
  \/ H_Return
  \/ \E t \in Loops : LoopStep(t)
  \/ \E p \in ProcIds : ProcExit(p)
  \/ \E v \in Videos : RemoveFile(v)

SpecSolo == InitSolo /\ [][NextSolo]_vars

\* The same, with fair scheduling: a thread that can take a step eventually
\* takes one (the loop threads, and the handler thread inside a request), and
\* every ffmpeg process eventually exits.  That a request arrives is not forced.
HandlerContinues == StartSteps \/ (SkipSteps /\ hpc # "idle") \/ H_Return

Fairness ==
  /\ \A t \in Loops : WF_vars(LoopStep(t))
  /\ \A p \in ProcIds : WF_vars(ProcExit(p))
  /\ WF_vars(HandlerContinues)

SpecSoloFair == SpecSolo /\ Fairness

\* ---------------------------------------------------------------- claims
\* a step of the handler thread (a restart is none)
HandlerMoves == hpc' # hpc /\ (hpc' = "idle" => hpc = "ret")
StopReturnsOk == hpc = "stop_233" /\ hpc' = "ret"

\* C1: at most one Stream Loop thread is running at any time; a second start()
\* never spawns a second loop.
C1_AtMostOneLoop == Cardinality(LiveLoops) <= 1

\* C2: when stop() returns on an active session the active flag is false and no
\* external process is running or referenced, and a start() issued right after
\* it with a non-empty queue is not refused as already active.
C2_StopLeavesIdle ==
  [][ /\ StopReturnsOk =>
           ~is_active' /\ process' = NoProc /\ Alive(procs') = {}
      /\ (prevStopOk /\ hpc = "idle" /\ hreq' = "start" /\ queue # <<>>) =>
           hpc' = "start_429"
    ]_vars

\* C3: in every reachable state at most one external streaming process is alive
\* (spawned and not yet exited).
C3_AtMostOneProcess == Cardinality(Alive(procs)) <= 1

\* C4: from a duplicate-free queue, the queue never contains duplicates, an
\* enqueue of a present id changes nothing and one of an absent id appends it at
\* the tail, a dequeue removes the id and keeps the order of the others (nothing
\* if absent), and status().queue is that queue.
C4_QueueFifoNoDup ==
  /\ []NoDup(queue)
  /\ [][ LET Others(x) == x # harg IN
         /\ (hpc = "add_100" /\ HandlerMoves) =>
              queue' = IF \E i \in 1..Len(queue) : queue[i] = harg
                       THEN queue ELSE queue \o <<harg>>
         /\ (hpc = "rem_107" /\ HandlerMoves) => queue' = SelectSeq(queue, Others)
         /\ (hpc = "status_259" /\ HandlerMoves) => resp'.queue = queue
       ]_vars

C4_Witness ==
  /\ hpc = "ret" /\ hreq = "rem" /\ harg = "b" /\ result = "ok"
  /\ queue = <<"c", "a">> /\ nadd >= 1

\* C5: start() on an empty queue creates no session: no step of a start request
\* taken while the queue is empty spawns a loop thread or writes a session
\* field, also when the queue was emptied while the request was in progress.
C5_NoSessionOnEmptyQueue ==
  [][ (queue = <<>> /\ HandlerMoves /\ (hreq = "start" \/ hreq' = "start")) =>
        /\ pc' = pc
        /\ UNCHANGED sessionVars
        /\ hpc = "start_429" => result' = "EmptyQueue"
    ]_vars

\* C6: a start() that finds the session active is refused with AlreadyActive,
\* and no step of a refused start() changes the active flag, the current video,
\* the start time, the queue, the process reference, the stop-requested flag,
\* the processes or the loop threads.
StartCheckStep ==
  /\ HandlerMoves
  /\ (hpc = "idle" /\ hreq' = "start") \/ hpc \in {"start_429", "start_122"}

C6_RejectedStartFrame ==
  [][ StartCheckStep =>
        /\ UNCHANGED <<sessionVars, queue, disk, process, should_stop, procs, loopVars, lock>>
        /\ (is_active /\ hpc # "start_429") => (hpc' = "ret" /\ result' = "AlreadyActive")
        /\ result' = "AlreadyActive" => is_active
    ]_vars

C6_Witness ==
  /\ hpc = "ret" /\ hreq = "start" /\ result = "AlreadyActive"
  /\ is_active /\ process # NoProc /\ should_stop

\* C7: a stop() that directly follows a stop() that returned ok is refused with
\* NotActive and changes none of the active flag, the current video, the start
\* time, the queue, the process reference and the processes.
C7_SecondStopRejected ==
  [][ /\ (prevStopOk /\ hpc = "idle" /\ hreq' = "stop") =>
           (hpc' = "ret" /\ result' = "NotActive")
      /\ (prevStopOk /\ HandlerMoves /\ (hreq = "stop" \/ hreq' = "stop")) =>
           UNCHANGED <<sessionVars, queue, process, procs>>
    ]_vars

\* steps of loop thread t: the pop of get_next_video, the launch of ffmpeg
PopStep(t) == pc[t] = "l114" /\ pc'[t] # "l114" /\ pc'[t] # "dead"
LaunchStep(t) == pc[t] = "l195" /\ pc'[t] = "l203"

\* C8: after skip() has signalled the process of video a while the queue head
\* is b, a is not in the queue again and is not launched again, the session
\* stays active, the loop's next pop takes b off the head of the queue, and the
\* next process launched is for b.
C8_SkipAdvances ==
  /\ [](note.kind = "skip" =>
          /\ note.id \notin Range(queue)
          /\ note.expect # NoVideo => (is_active /\ LiveLoops # {}))
  /\ [][ \A t \in Loops :
           /\ (PopStep(t) /\ note.kind = "skip" /\ note.expect # NoVideo) =>
                /\ vid'[t] = note.expect
                /\ queue' = Tail(queue)
                /\ is_active'
           /\ (LaunchStep(t) /\ note.kind = "skip") =>
                /\ procs'[process'].video = note.expect
                /\ procs'[process'].video # note.id
       ]_vars

C8_Witness ==
  \E t \in Loops :
    /\ pc[t] = "l195" /\ vid[t] = "b"
    /\ note = [kind |-> "skip", id |-> "a", expect |-> "b"]
    /\ queue = <<"c">> /\ is_active /\ current_video_id = "b"

\* C9: a popped video whose file is missing is skipped without ending the
\* session: the loop thread goes back to the head of the loop with the session
\* fields, the queue and the stop flag unchanged, and its next pop takes the
\* video that was next in the queue, which is the next one launched.
C9_MissingFileSkipped ==
  /\ [](note.kind = "missing" => (LiveLoops # {} /\ note.id \notin files))
  /\ [][ \A t \in Loops :
           /\ (pc[t] = "l141" /\ pc'[t] # "l141" /\ pc'[t] # "dead" /\ vid[t] \notin files) =>
                /\ pc'[t] = "l132"
                /\ UNCHANGED <<sessionVars, queue, should_stop>>
           /\ (PopStep(t) /\ note.kind = "missing" /\ note.expect # NoVideo) =>
                /\ vid'[t] = note.expect
                /\ pc'[t] = "l141"
           /\ (LaunchStep(t) /\ note.kind = "missing") =>
                procs'[process'].video = note.expect
       ]_vars

C9_Witness ==
  \E t \in Loops :
    /\ pc[t] = "l195" /\ vid[t] = "b"
    /\ note = [kind |-> "missing", id |-> "a", expect |-> "b"]
    /\ "a" \notin files /\ is_active /\ current_video_id = "b"

\* C10: whenever the lock is free and the last write of the queue file did not
\* fail, loading the queue file gives the in-memory queue, content and order;
\* so a restart reloads exactly the queue it had.
C10_PersistRoundTrip ==
  (lock = {} /\ ~ioFailed) => load_queue(disk) = queue

C10_Witness ==
  /\ restarted /\ nadd >= 1
  /\ queue = <<"b", "c", "a">> /\ disk.text = JsonDump(queue)

\* C11: the loop always pops the current head of the queue; the videos are
\* handed to the process launcher in the order in which they were popped, which
\* is queue order; and no step but the append of an enqueue puts an id into the
\* queue (a popped id is never re-inserted by the loop, skip or stop).
C11_HeadPopped ==
  \A t \in Loops :
    (PopStep(t) /\ queue # <<>>) => (vid'[t] = Head(queue) /\ queue' = Tail(queue))

C11_NeverRequeued ==
  (\E v \in Range(queue') : v \notin Range(queue)) => (hpc = "add_100" /\ HandlerMoves)

C11_LaunchInPopOrder == \A t \in Loops : LaunchStep(t) => vid[t] = Head(pend)

C11_StrictFifo ==
  [][C11_HeadPopped /\ C11_NeverRequeued /\ C11_LaunchInPopOrder]_vars

\* C12: the dictionary get_status returns is the snapshot of one state: while
\* the handler is inside get_status none of the fields it reads is written, the
\* dictionary it hands back equals the fields as they are at that moment, and
\* every write of these fields happens inside the critical section.
C12_StatusSnapshot ==
  [][ /\ (hpc = "status_259" /\ HandlerMoves) => resp' = get_status
      /\ (hpc \in {"status_251", "status_255", "status_259"} /\ HandlerMoves) =>
           UNCHANGED <<sessionVars, queue>>
      /\ (hpc \in {"status_251", "status_255", "status_259"} /\ hpc' = hpc) =>
           UNCHANGED <<sessionVars, queue>>
      /\ (<<sessionVars, queue>>' # <<sessionVars, queue>>) => lock # {}
    ]_vars

C12_Witness ==
  /\ hpc = "ret" /\ hreq = "status"
  /\ resp = [isActive |-> TRUE, currentVideoId |-> "a", started |-> TRUE,
             status |-> "streaming", queue |-> <<"b">>]
  /\ \E t \in Loops : pc[t] = "l214"

\* C13: in every reachable state the active flag is true if and only if a
\* process reference is held or a started loop thread has not yet terminated.
C13_ActiveIffSession == is_active <=> (process # NoProc \/ LiveLoops # {})

\* the session is idle: no loop thread, the three session fields reset
Idle ==
  LiveLoops = {} /\ ~is_active /\ current_video_id = NoVideo /\ start_time = NoTime

C15_StopEndsLoop ==
  [][ \A t \in Loops :
        /\ (t \in stopped /\ pc[t] = "l132" /\ pc'[t] # "l132") => pc'[t] = "l152"
        /\ pc[t] \in {"l152", "l153"} => pc'[t] \in {"l152", "l153", "dead"}
    ]_vars

\* C16: a thread blocked in a wait on an ffmpeg process (the loop in wait(),
\* stop or skip in wait(timeout)) does not hold the lock; the lock has at most
\* one holder, and its holder can always take its next step, so the lock is
\* always released again and no request that needs it is blocked for ever.
C16_NoLockAcrossWait ==
  /\ Cardinality(lock) <= 1
  /\ \A t \in Loops : pc[t] \in {"l203", "l203w"} => t \notin lock
  /\ hpc \in {"stop_224", "stop_224w", "skip_242", "skip_242w"} => Handler \notin lock
  /\ \A t \in Loops : t \in lock => ENABLED LoopStep(t)
  /\ Handler \in lock => ENABLED (QueueSteps \/ StatusSteps \/ StopSteps)

C16_Witness ==
  /\ \E t \in Loops : pc[t] = "l203w" /\ procs[wp[t]].st = "Running"
  /\ hpc = "add_100" /\ lock = {Handler}

\* C17: a stop() or skip() that signals a process completes with that process
\* exited (terminate, the wait of the grace period, then kill) and without an
\* error to its caller; a process that has exited never runs again; terminate
\* on a process that has exited does nothing.
C17_TerminationFinal ==
  [][ /\ (HandlerMoves /\ hpc' = "ret" /\ hreq \in {"stop", "skip"}) =>
           (ht' = NoProc /\ result' # "Error")
      /\ \A p \in ProcIds :
           procs[p].st = "Exited" =>
             (procs'[p].st \in {"Exited", "Free"} /\ Terminate(procs, p) = procs)
    ]_vars

\* steps of loop thread t at which a video fails: its file is missing, ffmpeg
\* cannot be started, ffmpeg exits with a non-zero return code
MissingStep(t) == pc[t] = "l141" /\ pc'[t] \notin {"l141", "dead"} /\ vid[t] \notin files
SpawnFailStep(t) == pc[t] = "l195" /\ pc'[t] \notin {"l195", "l203"}
NonZeroExitStep(t) == pc[t] = "l203w" /\ pc'[t] # "l203w" /\ note'.kind = "failed"

\* C18: a video that fails (missing file, spawn failure, non-zero exit) does
\* not end the loop: the thread goes back to the while test through the
\* clean-up of _stream_video, passes it while stop is not requested, and its
\* next pop takes the head the queue had at the failure; a loop thread ends
\* only with the clean-up step of its normal exit path.
C18_FailureSelfHeals ==
  [][ \A t \in Loops :
        /\ (pc[t] # "dead" /\ pc'[t] = "dead") => pc[t] = "l153"
        /\ MissingStep(t) => pc'[t] = "l132"
        /\ (SpawnFailStep(t) \/ NonZeroExitStep(t)) => pc'[t] = "l213"
        /\ (pc[t] = "l213" /\ pc'[t] # "l213") => pc'[t] = "l214"
        /\ (pc[t] = "l214" /\ pc'[t] # "l214") => pc'[t] = "l215"
        /\ (pc[t] = "l215" /\ pc'[t] # "l215") => pc'[t] = "l132"
        /\ (pc[t] = "l132" /\ pc'[t] # "l132" /\ ~should_stop) => pc'[t] = "l113"
        /\ (PopStep(t) /\ note.kind \in {"missing", "spawn", "failed"}
              /\ note.expect # NoVideo) =>
             (vid'[t] = note.expect /\ queue' = Tail(queue))
    ]_vars

C18_Witness ==
  \E t \in Loops :
    /\ pc[t] = "l188" /\ vid[t] = "c"
    /\ note = [kind |-> "failed", id |-> "b", expect |-> "c"]
    /\ is_active /\ queue = <<>>

\* C19: whenever the lock is free, the active flag is true exactly when
\* start_time is set, and a current video id is set only while the active flag
\* is true.
C19_FieldsConsistent ==
  lock = {} =>
    /\ is_active <=> start_time # NoTime
    /\ current_video_id # NoVideo => is_active

C19_Witness ==
  /\ lock = {} /\ is_active /\ start_time # NoTime /\ current_video_id = NoVideo
  /\ prevStopOk /\ LiveLoops # {}

\* a step of the handler thread inside a skip request
SkipRequestStep == HandlerMoves /\ (hreq = "skip" \/ hreq' = "skip")

\* C20: no step of skip() writes the queue, the active flag, the current video
\* id, the start time, the stop-requested flag or the process reference; a
\* skip() that finds no process reference returns ok without a signal and
\* changes nothing, so a loop thread that holds a popped video still launches it.
C20_SkipFrame ==
  [][ /\ SkipRequestStep =>
           UNCHANGED <<queue, disk, sessionVars, should_stop, process>>
      /\ (SkipRequestStep /\ hpc \in {"skip_239", "skip_241", "skip_242"}
            /\ process = NoProc) =>
           /\ hpc' = "ret" /\ result' = "ok"
           /\ UNCHANGED <<queue, disk, files, sessionVars, should_stop, process, lock,
                          procs, loopVars, pend>>
      /\ (SkipRequestStep /\ procs' # procs) => hpc \in {"skip_241", "skip_242w", "skip_244"}
    ]_vars

C20_Witness ==
  /\ hpc = "ret" /\ hreq = "skip" /\ result = "ok"
  /\ process = NoProc /\ Alive(procs) = {}
  /\ \E t \in Loops : pc[t] = "l195" /\ vid[t] = "a"
  /\ is_active /\ current_video_id = "a" /\ queue = <<"b">> /\ pend = <<"a">>

====
